---- MODULE Spec2Model ----
(***************************************************************************)
(* Model of voeparse.py (pysovo VOEvent tools): the namespace toggling of  *)
(* the root tag around parsing, serialisation and schema validation, the   *)
(* packet builder and the coordinate extractor.                            *)
(*                                                                         *)
(* Strings are sequences of tokens: a tag '{uri}Local' is the sequence     *)
(* <<"{", uri, "}", Local>>, so that str.replace and ''.join act on them   *)
(* as they act on Python strings.                                          *)
(***************************************************************************)
EXTENDS Integers, Sequences, FiniteSets, TLC

VARIABLES v, doc, last, trace, heap, proc

vars == <<v, doc, last, trace, heap, proc>>

(***************************************************************************)
(* Bounds of the model.                                                    *)
(***************************************************************************)
MaxIvornLen == 2
MaxVal == 1
MaxCalls == 3

(***************************************************************************)
(* Strings of the program and of its inputs.                               *)
(***************************************************************************)
VOE_NS == "http://www.ivoa.net/xml/VOEvent/v2.0"
OTHER_NS == "urn:other"
NoNs == "<no voe prefix>"

fk5 == "UTC-FK5-GEO"
degrees == "degrees"

RECURSIVE Join(_)
\* ''.join(parts): the concatenation of the strings of a tuple.
Join(parts) ==
    IF parts = <<>> THEN <<>> ELSE Head(parts) \o Join(Tail(parts))

RECURSIVE Replace(_, _, _)
\* s.replace(old, new): every non-overlapping occurrence, left to right.
Replace(s, old, new) ==
    IF Len(s) < Len(old) \/ Len(s) = 0 THEN s
    ELSE IF SubSeq(s, 1, Len(old)) = old
         THEN new \o Replace(SubSeq(s, Len(old) + 1, Len(s)), old, new)
         ELSE <<Head(s)>> \o Replace(Tail(s), old, new)

PrefixedTag(ns, local) == <<"{", ns, "}", local>>
StrippedTag(local) == <<local>>

(***************************************************************************)
(* Trees.  nsvoe is v.nsmap['voe'] (NoNs: the prefix is not declared),     *)
(* attrib the root attributes, annot the type-annotation attributes        *)
(* (py:pytype, xsi:type) carried by the elements of the tree, ww the       *)
(* WhereWhen subtree and ok whether the content below the root conforms    *)
(* to the schema.                                                          *)
(***************************************************************************)
AnnotationAttrs == {"py:pytype", "xsi:type"}

PathNodes == {"WhereWhen", "ObsDataLocation", "ObservationLocation",
              "AstroCoords", "AstroCoordSystem", "id", "Position2D",
              "Name1", "Name2", "Value2", "C1", "C2", "Error2Radius"}

Vals == 0..MaxVal

WW(present, n1, n2, c1, c2, e, id) ==
    [present |-> present, Name1 |-> n1, Name2 |-> n2, C1 |-> c1, C2 |-> c2,
     Error2Radius |-> e, id |-> id]

EmptyWW == WW({}, "", "", 0, 0, 0, "")

Tree(tag, ns, attrib, annot, ww, ok) ==
    [tag |-> tag, nsvoe |-> ns, attrib |-> attrib, annot |-> annot,
     ww |-> ww, ok |-> ok]

NoTree == [none |-> TRUE]
NoDoc == [none |-> TRUE]
NoVal == [kind |-> "none"]

SetAttr(a, k, x) == [n \in DOMAIN a \cup {k} |-> IF n = k THEN x ELSE a[n]]

NoAttrs == [n \in {} |-> <<>>]


(***************************************************************************)
(* Documents (the XML text given to loads and produced by dumps): the      *)
(* qualified name of the root, the namespace bound to the 'voe' prefix     *)
(* and the content.                                                        *)
(***************************************************************************)
Document(rootns, local, voe, attrib, annot, ww, ok) ==
    [rootns |-> rootns, local |-> local, voe |-> voe, attrib |-> attrib,
     annot |-> annot, ww |-> ww, ok |-> ok]

\* objectify.fromstring: the root tag in Clark notation, '{uri}Local'.
FromString(d) ==
    Tree(IF d.rootns = "" THEN StrippedTag(d.local)
                          ELSE PrefixedTag(d.rootns, d.local),
         d.voe, d.attrib, d.annot, d.ww, d.ok)

\* etree.tostring: the root's qualified name is read back from its tag.
EtreeToString(t, pretty_print, xml_declaration) ==
    [kind |-> "bytes",
     rootns |-> IF Len(t.tag) = 4 /\ t.tag[1] = "{" /\ t.tag[3] = "}"
                THEN t.tag[2] ELSE "",
     local |-> t.tag[Len(t.tag)],
     voe |-> t.nsvoe, attrib |-> t.attrib, annot |-> t.annot,
     ww |-> t.ww, ok |-> t.ok,
     pretty_print |-> pretty_print, xml_declaration |-> xml_declaration,
     encoding |-> "UTF-8"]

\* voevent_v2_0_schema.validate(v): the schema is written over the
\* namespaced root element.
SchemaValidate(t) == t.tag = PrefixedTag(VOE_NS, "VOEvent") /\ t.ok

(***************************************************************************)
(* The namespace normaliser.  Each helper gives the error it raises        *)
(* ("none": it returns) and the tree as it leaves it.                      *)
(***************************************************************************)
RemoveRootTagPrefix(t) ==
    IF t.nsvoe = NoNs
    THEN [err |-> "KeyError", tree |-> t]
    ELSE [err |-> "none",
          tree |-> [t EXCEPT !.tag =
                       Replace(t.tag, Join(<<<<"{">>, <<t.nsvoe>>, <<"}">>>>),
                               <<>>)]]

\* Mutants of _reinsert_root_tag_prefix: the assignment left out; the prefix
\* put in front of the current tag; the braces of the prefix left out.
ReinsertRootTagPrefix_Forgotten(t) ==
    IF t.nsvoe = NoNs
    THEN [err |-> "KeyError", tree |-> t]
    ELSE [err |-> "none", tree |-> t]

ReinsertRootTagPrefix_Prepended(t) ==
    IF t.nsvoe = NoNs
    THEN [err |-> "KeyError", tree |-> t]
    ELSE [err |-> "none",
          tree |-> [t EXCEPT !.tag =
                       Join(<<<<"{">>, <<t.nsvoe>>, <<"}">>, t.tag>>)]]

ReinsertRootTagPrefix_NoBraces(t) ==
    IF t.nsvoe = NoNs
    THEN [err |-> "KeyError", tree |-> t]
    ELSE [err |-> "none",
          tree |-> [t EXCEPT !.tag = Join(<<<<t.nsvoe>>, <<"VOEvent">>>>)]]

ReinsertRootTagPrefix(t) ==
    IF t.nsvoe = NoNs
    THEN [err |-> "KeyError", tree |-> t]
    ELSE [err |-> "none",
          tree |-> [t EXCEPT !.tag =
                       Join(<<<<"{">>, <<t.nsvoe>>, <<"}", "VOEvent">>>>)]]

\* objectify.deannotate(v): removes the py:pytype and xsi:type attributes
\* of every element.
Deannotate(t) == [t EXCEPT !.annot = t.annot \ AnnotationAttrs]

\* Mutant of _return_to_standard_xml: the namespace is not put back.
ReturnToStandardXml_OnlyDeannotate(t) ==
    [err |-> "none", tree |-> Deannotate(t)]

ReturnToStandardXml(t) == ReinsertRootTagPrefix(Deannotate(t))

(***************************************************************************)
(* The operations, as functions of the tree they are given: the error      *)
(* raised ("none": normal return), the value returned, the tree as the     *)
(* call leaves it and the root tag seen by the serialiser or validator.    *)
(***************************************************************************)
Outcome(err, val, post, seen) ==
    [err |-> err, val |-> val, post |-> post, seen |-> seen]

LoadsOf(s, validate) ==
    LET r == RemoveRootTagPrefix(FromString(s))
    IN  Outcome(r.err, NoVal, r.tree, <<>>)

DumpsOf(t, validate, pretty_print, xml_declaration) ==
    LET std == ReturnToStandardXml(t)
        s == EtreeToString(std.tree, pretty_print, xml_declaration)
        r == RemoveRootTagPrefix(std.tree)
    IN  IF std.err # "none" THEN Outcome(std.err, NoVal, std.tree, <<>>)
        ELSE IF r.err # "none" THEN Outcome(r.err, NoVal, r.tree, std.tree.tag)
        ELSE Outcome("none", s, r.tree, std.tree.tag)

ValidAsV2Of(t) ==
    LET std == ReturnToStandardXml(t)
        valid_bool == SchemaValidate(std.tree)
        r == RemoveRootTagPrefix(std.tree)
    IN  IF std.err # "none" THEN Outcome(std.err, NoVal, std.tree, <<>>)
        ELSE IF r.err # "none" THEN Outcome(r.err, NoVal, r.tree, std.tree.tag)
        ELSE Outcome("none", [kind |-> "bool", b |-> valid_bool], r.tree,
                     std.tree.tag)

\* assertValid raises DocumentInvalid before the strip is reached.
AssertValidAsV2Of(t) ==
    LET std == ReturnToStandardXml(t)
        r == RemoveRootTagPrefix(std.tree)
    IN  IF std.err # "none" THEN Outcome(std.err, NoVal, std.tree, <<>>)
        ELSE IF ~SchemaValidate(std.tree)
        THEN Outcome("DocumentInvalid", NoVal, std.tree, std.tree.tag)
        ELSE IF r.err # "none" THEN Outcome(r.err, NoVal, r.tree, std.tree.tag)
        ELSE Outcome("none", [kind |-> "None"], r.tree, std.tree.tag)

\* definitions.v2_0_skeleton_str; conforms: whether the skeleton with the
\* two attributes set conforms to the schema.
Skeleton(conforms) ==
    Document(VOE_NS, "VOEvent", VOE_NS, NoAttrs, {}, EmptyWW, conforms)

\* Mutants of make_voevent: "ivo://" added only when the ivorn lacks it; the
\* tree returned whatever assert_valid_as_v2_0 did.
MakeVoeventOf_PrefixIfMissing(ivorn, role, validate, conforms) ==
    LET r == RemoveRootTagPrefix(FromString(Skeleton(conforms)))
        full == IF Len(ivorn) > 0 /\ Head(ivorn) = "ivo://" THEN ivorn
                ELSE Join(<<<<"ivo://">>, ivorn>>)
        t == [r.tree EXCEPT !.attrib =
                 SetAttr(SetAttr(r.tree.attrib, "ivorn", full), "role", role)]
        a == AssertValidAsV2Of(t)
    IN  IF r.err # "none" THEN Outcome(r.err, NoVal, r.tree, <<>>)
        ELSE IF validate
        THEN IF a.err # "none" THEN Outcome(a.err, NoVal, a.post, a.seen)
             ELSE Outcome("none", [kind |-> "tree"], a.post, a.seen)
        ELSE Outcome("none", [kind |-> "tree"], t, <<>>)

MakeVoeventOf_Unchecked(ivorn, role, validate, conforms) ==
    LET r == RemoveRootTagPrefix(FromString(Skeleton(conforms)))
        t == [r.tree EXCEPT !.attrib =
                 SetAttr(SetAttr(r.tree.attrib, "ivorn",
                                 Join(<<<<"ivo://">>, ivorn>>)),
                         "role", role)]
        a == ValidAsV2Of(t)
    IN  IF r.err # "none" THEN Outcome(r.err, NoVal, r.tree, <<>>)
        ELSE IF validate
        THEN Outcome(a.err, [kind |-> "tree"], a.post, a.seen)
        ELSE Outcome("none", [kind |-> "tree"], t, <<>>)

MakeVoeventOf(ivorn, role, validate, conforms) ==
    LET r == RemoveRootTagPrefix(FromString(Skeleton(conforms)))
        t == [r.tree EXCEPT !.attrib =
                 SetAttr(SetAttr(r.tree.attrib, "ivorn",
                                 Join(<<<<"ivo://">>, ivorn>>)),
                         "role", role)]
        a == AssertValidAsV2Of(t)
    IN  IF r.err # "none" THEN Outcome(r.err, NoVal, r.tree, <<>>)
        ELSE IF validate
        THEN IF a.err # "none" THEN Outcome(a.err, NoVal, a.post, a.seen)
             ELSE Outcome("none", [kind |-> "tree"], a.post, a.seen)
        ELSE Outcome("none", [kind |-> "tree"], t, <<>>)

Has(t, nodes) == nodes \subseteq t.ww.present

\* objectify looks a child up in the namespace of its parent; the children
\* of the root are in no namespace.
RootIsNamespaced(t) == Len(t.tag) > 1 /\ t.tag[1] = "{"

Coords(ra, dec, ra_err, dec_err, units, system) ==
    [kind |-> "Coords", ra |-> ra, dec |-> dec, ra_err |-> ra_err,
     dec_err |-> dec_err, units |-> units, system |-> system]

AllPresent(t) == t.ww.present = PathNodes

\* Mutant of pull_astro_coords: the system is the predefined tag, not the
\* id of the document.
PullAstroCoordsOf_Fk5Only(t) ==
    LET w == t.ww
        Raise(e) == Outcome(e, NoVal, t, <<>>)
    IN  IF RootIsNamespaced(t) THEN Raise("AttributeError")
        ELSE IF ~Has(t, {"WhereWhen", "ObsDataLocation", "ObservationLocation",
                         "AstroCoords"})
        THEN Raise("AttributeError")
        ELSE IF ~Has(t, {"AstroCoordSystem"}) THEN Raise("AttributeError")
        ELSE IF ~Has(t, {"id"}) THEN Raise("KeyError")
        ELSE IF ~Has(t, {"Position2D"}) THEN Raise("ValueError")
        ELSE IF ~Has(t, {"Name1"}) THEN Raise("ValueError")
        ELSE IF w.Name1 # "RA" THEN Raise("AssertionError")
        ELSE IF ~Has(t, {"Name2"}) THEN Raise("ValueError")
        ELSE IF w.Name2 # "Dec" THEN Raise("AssertionError")
        ELSE IF ~Has(t, {"Value2", "C1"}) THEN Raise("ValueError")
        ELSE IF ~Has(t, {"C2"}) THEN Raise("ValueError")
        ELSE IF ~Has(t, {"Error2Radius"}) THEN Raise("ValueError")
        ELSE Outcome("none",
                     Coords(w.C1, w.C2, w.Error2Radius, w.Error2Radius,
                            degrees, fk5),
                     t, <<>>)

PullAstroCoordsOf(t) ==
    LET w == t.ww
        Raise(e) == Outcome(e, NoVal, t, <<>>)
    IN  IF RootIsNamespaced(t) THEN Raise("AttributeError")
        ELSE IF ~Has(t, {"WhereWhen", "ObsDataLocation", "ObservationLocation",
                         "AstroCoords"})
        THEN Raise("AttributeError")
        ELSE IF ~Has(t, {"AstroCoordSystem"}) THEN Raise("AttributeError")
        ELSE IF ~Has(t, {"id"}) THEN Raise("KeyError")
        ELSE IF ~Has(t, {"Position2D"}) THEN Raise("ValueError")
        ELSE IF ~Has(t, {"Name1"}) THEN Raise("ValueError")
        ELSE IF w.Name1 # "RA" THEN Raise("AssertionError")
        ELSE IF ~Has(t, {"Name2"}) THEN Raise("ValueError")
        ELSE IF w.Name2 # "Dec" THEN Raise("AssertionError")
        ELSE IF ~Has(t, {"Value2", "C1"}) THEN Raise("ValueError")
        ELSE IF ~Has(t, {"C2"}) THEN Raise("ValueError")
        ELSE IF ~Has(t, {"Error2Radius"}) THEN Raise("ValueError")
        ELSE Outcome("none",
                     Coords(w.C1, w.C2, w.Error2Radius, w.Error2Radius,
                            degrees, w.id),
                     t, <<>>)


(***************************************************************************)
(* Inputs of the sequential specification.                                 *)
(***************************************************************************)
DocAttrs == SetAttr(SetAttr(NoAttrs, "ivorn", <<"ivo://", "a">>),
                    "role", "observation")

FullWW == WW(PathNodes, "RA", "Dec", 0, MaxVal, 0, fk5)

\* Documents that differ in their root element and namespace declarations.
RootDocs ==
    { Document(rn, l, voe, DocAttrs, an, FullWW, ok) :
        rn \in {VOE_NS, OTHER_NS}, l \in {"VOEvent", "Transient"},
        voe \in {VOE_NS, OTHER_NS, NoNs}, an \in SUBSET AnnotationAttrs,
        ok \in BOOLEAN }

\* Documents with a whole WhereWhen subtree, differing in the axis names,
\* the values and the system id.
FullCoordDocs ==
    { Document(VOE_NS, "VOEvent", VOE_NS, DocAttrs, {},
               WW(PathNodes, n1, n2, c1, c2, e, id), TRUE) :
        n1 \in {"RA", "GLON"}, n2 \in {"Dec", "GLAT"},
        c1 \in Vals, c2 \in Vals, e \in Vals, id \in {fk5, "ICRS"} }

\* Documents in which one node of the path is absent.
PartialCoordDocs ==
    { Document(VOE_NS, "VOEvent", VOE_NS, DocAttrs, {},
               WW(PathNodes \ {m}, n1, n2, 0, MaxVal, 0, fk5), TRUE) :
        m \in PathNodes, n1 \in {"RA", "GLON"}, n2 \in {"Dec", "GLAT"} }

Documents == RootDocs \cup FullCoordDocs \cup PartialCoordDocs

Ivorns == UNION { [1..n -> {"ivo://", "a"}] : n \in 0..MaxIvornLen }
Roles == {"observation", "bogus"}

NoArg == [kind |-> "none"]

(***************************************************************************)
(* The sequential specification: one caller holding one tree v (loaded     *)
(* from doc, or built), calling the operations one after the other.  last  *)
(* records the latest call: its arguments, the tree before and after, the  *)
(* error raised, the value returned, the root tag seen by the serialiser   *)
(* or validator; left: v is as a failed assert_valid_as_v2_0 left it.      *)
(* loads and make_voevent read no state, so a behaviour follows the tree   *)
(* of its first successful loads or make_voevent.                          *)
(***************************************************************************)
Called(op, arg, pre, o, left) ==
    [op |-> op, arg |-> arg, pre |-> pre, err |-> o.err, val |-> o.val,
     post |-> o.post, seen |-> o.seen, wasLeft |-> last.left, left |-> left]

Idle == <<trace, heap, proc>>

InitLast ==
    [op |-> "init", arg |-> NoArg, pre |-> NoTree, err |-> "none",
     val |-> NoVal, post |-> NoTree, seen |-> <<>>,
     wasLeft |-> FALSE, left |-> FALSE]

Init ==
    /\ v = NoTree
    /\ doc = NoDoc
    /\ last = InitLast
    /\ trace = <<>>
    /\ heap = <<>>
    /\ proc = <<>>

Loads(s, validate) ==
    LET o == LoadsOf(s, validate)
    IN  /\ v = NoTree
        /\ IF o.err = "none"
           THEN v' = o.post /\ doc' = s
           ELSE UNCHANGED <<v, doc>>
        /\ last' = Called("loads", NoArg, NoTree, o,
                          IF o.err = "none" THEN FALSE ELSE last.left)
        /\ UNCHANGED Idle

Dumps(validate, pretty_print, xml_declaration) ==
    LET o == DumpsOf(v, validate, pretty_print, xml_declaration)
    IN  /\ v # NoTree
        /\ v' = o.post
        /\ last' = Called("dumps",
                          [kind |-> "dumps", validate |-> validate,
                           pretty_print |-> pretty_print,
                           xml_declaration |-> xml_declaration],
                          v, o, FALSE)
        /\ UNCHANGED <<doc, Idle>>

ValidAsV2 ==
    LET o == ValidAsV2Of(v)
    IN  /\ v # NoTree
        /\ v' = o.post
        /\ last' = Called("valid_as_v2_0", NoArg, v, o, FALSE)
        /\ UNCHANGED <<doc, Idle>>

AssertValidAsV2 ==
    LET o == AssertValidAsV2Of(v)
    IN  /\ v # NoTree
        /\ v' = o.post
        /\ last' = Called("assert_valid_as_v2_0", NoArg, v, o,
                          o.err = "DocumentInvalid")
        /\ UNCHANGED <<doc, Idle>>

MakeVoevent(ivorn, role, validate, conforms) ==
    LET o == MakeVoeventOf(ivorn, role, validate, conforms)
    IN  /\ v = NoTree
        /\ IF o.err = "none"
           THEN v' = o.post /\ doc' = NoDoc
           ELSE UNCHANGED <<v, doc>>
        /\ last' = Called("make_voevent",
                          [kind |-> "make", ivorn |-> ivorn, role |-> role,
                           validate |-> validate],
                          NoTree, o,
                          IF o.err = "none" THEN FALSE ELSE last.left)
        /\ UNCHANGED Idle

PullAstroCoords ==
    LET o == PullAstroCoordsOf(v)
    IN  /\ v # NoTree
        /\ v' = o.post
        /\ last' = Called("pull_astro_coords", NoArg, v, o, last.left)
        /\ UNCHANGED <<doc, Idle>>

Next ==
    \/ \E s \in Documents, validate \in BOOLEAN : Loads(s, validate)
    \/ \E validate, pretty_print, xml_declaration \in BOOLEAN :
          Dumps(validate, pretty_print, xml_declaration)
    \/ ValidAsV2
    \/ AssertValidAsV2
    \/ \E ivorn \in Ivorns, role \in Roles, validate, conforms \in BOOLEAN :
          MakeVoevent(ivorn, role, validate, conforms)
    \/ PullAstroCoords

Spec == Init /\ [][Next]_vars


(***************************************************************************)
(* Properties of the sequential specification.                             *)
(***************************************************************************)
HasVoePrefix(t) ==
    /\ t.nsvoe # NoNs
    /\ Len(t.tag) >= 3
    /\ SubSeq(t.tag, 1, 3) = <<"{", t.nsvoe, "}">>

\* A document is schema-valid when the tree it parses to validates.
DocValid(d) == SchemaValidate(FromString(d))

\* The latest call is dumps(loads(d)) for a document d whose root is
\* {ns}VOEvent with the 'voe' prefix bound to ns.
IsDumpsOfLoads ==
    /\ last.op = "dumps"
    /\ doc # NoDoc
    /\ doc.rootns # "" /\ doc.local = "VOEvent" /\ doc.voe = doc.rootns
    /\ last.pre = LoadsOf(doc, FALSE).post

\* C1 as stated: dumps(loads(d)) serialises with the root tag {ns}VOEvent
\* and with all the attributes and the children of d, and its output is
\* schema-valid whenever d is.
C1_RoundTripAllAttributes ==
    IsDumpsOfLoads =>
        /\ last.err = "none"
        /\ last.seen = PrefixedTag(doc.rootns, "VOEvent")
        /\ last.val.rootns = doc.rootns /\ last.val.local = doc.local
        /\ last.val.voe = doc.voe
        /\ last.val.attrib = doc.attrib
        /\ last.val.annot = doc.annot
        /\ last.val.ww = doc.ww
        /\ (DocValid(doc) => DocValid(last.val))

\* C1 amended: dumps(loads(d)) serialises with the root tag {ns}VOEvent,
\* the root attributes and the children of d, but without the py:pytype
\* and xsi:type annotation attributes of d, which dumps removes; the
\* output is schema-valid whenever d is.
C1_RoundTrip ==
    IsDumpsOfLoads =>
        /\ last.err = "none"
        /\ last.seen = PrefixedTag(doc.rootns, "VOEvent")
        /\ last.val.rootns = doc.rootns /\ last.val.local = doc.local
        /\ last.val.voe = doc.voe
        /\ last.val.attrib = doc.attrib
        /\ last.val.annot = doc.annot \ AnnotationAttrs
        /\ last.val.ww = doc.ww
        /\ (DocValid(doc) => DocValid(last.val))

C1_Witness ==
    /\ IsDumpsOfLoads
    /\ last.err = "none"
    /\ doc.annot = AnnotationAttrs
    /\ DocValid(doc)
    /\ last.val.annot = {}

\* C2 as stated: whenever loads, dumps, valid_as_v2_0, assert_valid_as_v2_0
\* or make_voevent gives control back, by returning or by raising, the root
\* tag of the caller's tree does not carry the 'voe' namespace prefix.
C2_AlwaysStrippedOnExit ==
    ( /\ last.op \in {"loads", "dumps", "valid_as_v2_0",
                      "assert_valid_as_v2_0", "make_voevent"}
      /\ v # NoTree )
        => ~HasVoePrefix(v)

\* C3: the tree make_voevent(ivorn, role) returns has attribute ivorn equal
\* to "ivo://" followed by the caller's ivorn, whatever that ivorn starts
\* with, and attribute role equal to the caller's role.
C3_IvornPrefixed ==
    (last.op = "make_voevent" /\ last.err = "none") =>
        /\ v = last.post
        /\ v.attrib["ivorn"] = <<"ivo://">> \o last.arg.ivorn
        /\ v.attrib["role"] = last.arg.role

C3_Witness ==
    /\ last.op = "make_voevent" /\ last.err = "none"
    /\ Len(last.arg.ivorn) = 2 /\ last.arg.ivorn[1] = "ivo://"
    /\ SubSeq(v.attrib["ivorn"], 1, 2) = <<"ivo://", "ivo://">>
    /\ v.attrib["role"] = "bogus"

\* C4: make_voevent with validate=True returns a tree only when
\* assert_valid_as_v2_0 did not raise, and valid_as_v2_0 of the returned
\* tree is true; when the skeleton with the attributes is invalid the
\* schema error propagates and no tree is returned.  With validate=False
\* no validation step is run.
C4_BuilderValidates ==
    last.op = "make_voevent" =>
        /\ (last.arg.validate /\ last.err = "none") =>
               /\ v = last.post
               /\ ValidAsV2Of(v).err = "none"
               /\ ValidAsV2Of(v).val.b
        /\ (last.arg.validate /\ ~last.post.ok) =>
               /\ last.err = "DocumentInvalid"
               /\ last.val = NoVal
               /\ v = NoTree
        /\ ~last.arg.validate => (last.err = "none" /\ last.seen = <<>>)

C4_Witness ==
    /\ last.op = "make_voevent" /\ last.arg.validate /\ last.err = "none"
    /\ v.tag = StrippedTag("VOEvent")

\* C5: when the axes are named "RA" and "Dec", pull_astro_coords returns
\* Coords with ra = Value2.C1, dec = Value2.C2, ra_err = dec_err =
\* Error2Radius, units = "degrees" and system = the id attribute of
\* AstroCoordSystem as it is written; it returns only for those axis names
\* and it leaves the tree and its root tag unchanged.
C5_CoordsExtracted ==
    last.op = "pull_astro_coords" =>
        /\ last.post = last.pre /\ v = last.pre
        /\ last.err = "none" =>
               /\ last.pre.ww.Name1 = "RA" /\ last.pre.ww.Name2 = "Dec"
               /\ last.val.ra = last.pre.ww.C1
               /\ last.val.dec = last.pre.ww.C2
               /\ last.val.ra_err = last.pre.ww.Error2Radius
               /\ last.val.dec_err = last.pre.ww.Error2Radius
               /\ last.val.units = "degrees"
               /\ last.val.system = last.pre.ww.id
        /\ ( /\ AllPresent(last.pre)
             /\ ~RootIsNamespaced(last.pre)
             /\ last.pre.ww.Name1 = "RA" /\ last.pre.ww.Name2 = "Dec" )
               => last.err = "none"

C5_Witness ==
    /\ last.op = "pull_astro_coords" /\ last.err = "none"
    /\ last.val.system = "ICRS"
    /\ last.val.ra # last.val.dec
    /\ last.val.ra_err # last.val.ra
    /\ last.val.dec_err = last.val.ra_err

\* C6 as stated: every failing call of pull_astro_coords fails with the
\* ValueError "Unrecognised AstroCoords type".
C6_OnlyValueError ==
    (last.op = "pull_astro_coords" /\ last.err # "none")
        => last.err = "ValueError"

\* C10: a dumps or valid_as_v2_0 call on a tree that a failed
\* assert_valid_as_v2_0 left prefixed completes without error, serialises
\* or validates with the root tag exactly {ns}VOEvent, gives the result it
\* gives on the stripped tree, and leaves the tree stripped.
C10_PrefixedStateRecovers ==
    (last.op \in {"dumps", "valid_as_v2_0"} /\ last.wasLeft) =>
        LET stripped == RemoveRootTagPrefix(last.pre).tree
            again == IF last.op = "dumps"
                     THEN DumpsOf(stripped, last.arg.validate,
                                  last.arg.pretty_print,
                                  last.arg.xml_declaration)
                     ELSE ValidAsV2Of(stripped)
        IN  /\ last.pre.tag = PrefixedTag(last.pre.nsvoe, "VOEvent")
            /\ stripped.tag = StrippedTag("VOEvent")
            /\ last.err = "none"
            /\ last.seen = PrefixedTag(last.pre.nsvoe, "VOEvent")
            /\ last.val = again.val
            /\ last.post = again.post
            /\ last.post.tag = StrippedTag("VOEvent")
            /\ v = last.post /\ ~last.left

C10_Witness ==
    /\ last.op = "dumps" /\ last.wasLeft
    /\ last.pre.tag = PrefixedTag(VOE_NS, "VOEvent")
    /\ last.val.rootns = VOE_NS
    /\ v.tag = StrippedTag("VOEvent")


(***************************************************************************)
(* The normaliser on its own: a tree drawn from ToggleTrees and up to      *)
(* MaxCalls direct calls of the two helpers; trace records each call, the  *)
(* error it raised and the root tag before and after it.                   *)
(***************************************************************************)
ToggleTags ==
    { PrefixedTag(n, l) : n \in {VOE_NS, OTHER_NS},
                          l \in {"VOEvent", "Transient"} }
    \cup { StrippedTag(l) : l \in {"VOEvent", "Transient"} }

ToggleTrees ==
    { Tree(tag, ns, DocAttrs, {}, FullWW, TRUE) :
        tag \in ToggleTags, ns \in {VOE_NS, OTHER_NS, NoNs} }

InitToggle ==
    /\ v \in ToggleTrees
    /\ doc = NoDoc
    /\ last = InitLast
    /\ trace = <<>>
    /\ heap = <<>>
    /\ proc = <<>>

Traced(op, r) ==
    Append(trace, [op |-> op, err |-> r.err, before |-> v.tag,
                   after |-> r.tree.tag])

CallRemoveRootTagPrefix ==
    LET r == RemoveRootTagPrefix(v)
    IN  /\ Len(trace) < MaxCalls
        /\ v' = r.tree
        /\ trace' = Traced("remove", r)
        /\ UNCHANGED <<doc, last, heap, proc>>

CallReinsertRootTagPrefix ==
    LET r == ReinsertRootTagPrefix(v)
    IN  /\ Len(trace) < MaxCalls
        /\ v' = r.tree
        /\ trace' = Traced("reinsert", r)
        /\ UNCHANGED <<doc, last, heap, proc>>

NextToggle == CallRemoveRootTagPrefix \/ CallReinsertRootTagPrefix

SpecToggle == InitToggle /\ [][NextToggle]_vars

Ops(tr) == [i \in DOMAIN tr |-> tr[i].op]

\* tag is {ns}Local for the namespace ns bound to 'voe'.
IsPrefixedForm(tag, ns) ==
    ns # NoNs /\ Len(tag) = 4 /\ tag = PrefixedTag(ns, tag[4])

Contains(s, sub) == Replace(s, sub, <<>>) # s

\* C8 as stated: from a root tag {ns}LocalName, whatever LocalName is,
\* remove then reinsert gives back {ns}LocalName, and remove, reinsert,
\* remove gives the stripped tag a single remove gives.
C8_ToggleAnyLocalName ==
    (Len(trace) >= 2 /\ IsPrefixedForm(trace[1].before, v.nsvoe)
       /\ SubSeq(Ops(trace), 1, 2) = <<"remove", "reinsert">>) =>
        /\ trace[2].after = trace[1].before
        /\ (Len(trace) = 3 /\ trace[3].op = "remove")
               => trace[3].after = trace[1].after

\* C8 amended: from the root tag {ns}VOEvent, remove then reinsert gives
\* back {ns}VOEvent, and remove, reinsert, remove gives the stripped tag a
\* single remove gives; no call of the three raises.
C8_ToggleVOEvent ==
    (Len(trace) >= 2 /\ trace[1].before = PrefixedTag(v.nsvoe, "VOEvent")
       /\ v.nsvoe # NoNs
       /\ SubSeq(Ops(trace), 1, 2) = <<"remove", "reinsert">>) =>
        /\ trace[1].err = "none" /\ trace[2].err = "none"
        /\ trace[1].after = StrippedTag("VOEvent")
        /\ trace[2].after = trace[1].before
        /\ (Len(trace) = 3 /\ trace[3].op = "remove")
               => (trace[3].err = "none" /\ trace[3].after = trace[1].after)

C8_Witness ==
    /\ Len(trace) = 3
    /\ Ops(trace) = <<"remove", "reinsert", "remove">>
    /\ trace[1].before = PrefixedTag(OTHER_NS, "VOEvent")
    /\ trace[2].after = PrefixedTag(OTHER_NS, "VOEvent")
    /\ trace[3].after = StrippedTag("VOEvent")

\* C9 as stated: a remove whose precondition is not met (no namespace bound
\* to 'voe', or a root tag that does not contain that namespace) fails with
\* MalformedDocument and leaves the root tag as it was.
C9_RemoveChecksPrecondition ==
    \A i \in DOMAIN trace :
        ( /\ trace[i].op = "remove"
          /\ \/ v.nsvoe = NoNs
             \/ ~Contains(trace[i].before, <<"{", v.nsvoe, "}">>) )
            => ( /\ trace[i].err = "MalformedDocument"
                 /\ trace[i].after = trace[i].before )

(***************************************************************************)
(* Two threads calling dumps and valid_as_v2_0 on trees of a shared heap.  *)
(* A call is three steps: _return_to_standard_xml, the serialisation or    *)
(* validation, _remove_root_tag_prefix.  seen is the root tag the second   *)
(* step read; shared: another call was at work on the same tree at some    *)
(* time during this call.                                                  *)
(***************************************************************************)
Procs == {"p1", "p2"}
TreeIds == {"t1", "t2"}

ConcDocs ==
    { Document(VOE_NS, "VOEvent", VOE_NS, DocAttrs, an, FullWW, ok) :
        an \in {{}, {"py:pytype"}}, ok \in BOOLEAN }

IdleProc ==
    [pc |-> "idle", op |-> "none", tree |-> "none", seen |-> <<>>,
     shared |-> FALSE]

InitConc ==
    /\ v = NoTree
    /\ doc = NoDoc
    /\ last = InitLast
    /\ trace = <<>>
    /\ heap \in [TreeIds -> { LoadsOf(d, FALSE).post : d \in ConcDocs }]
    /\ proc = [p \in Procs |-> IdleProc]

Busy(q, t) == proc[q].pc # "idle" /\ proc[q].tree = t

\* A thread enters dumps(v) or valid_as_v2_0(v) with v the tree t.
Begin(p, op, t) ==
    /\ proc[p].pc = "idle"
    /\ proc' = [q \in Procs |->
                  IF q = p
                  THEN [pc |-> "standard", op |-> op, tree |-> t,
                        seen |-> <<>>,
                        shared |-> \E r \in Procs \ {p} : Busy(r, t)]
                  ELSE IF Busy(q, t) THEN [proc[q] EXCEPT !.shared = TRUE]
                  ELSE proc[q]]
    /\ UNCHANGED <<v, doc, last, trace, heap>>

\* _return_to_standard_xml(v)
Standardise(p) ==
    LET t == proc[p].tree
        r == ReturnToStandardXml(heap[t])
    IN  /\ proc[p].pc = "standard"
        /\ heap' = [heap EXCEPT ![t] = r.tree]
        /\ proc' = [proc EXCEPT ![p] =
                       IF r.err = "none" THEN [@ EXCEPT !.pc = "work"]
                       ELSE IdleProc]
        /\ UNCHANGED <<v, doc, last, trace>>

\* etree.tostring(v, ...) or voevent_v2_0_schema.validate(v)
Work(p) ==
    /\ proc[p].pc = "work"
    /\ proc' = [proc EXCEPT ![p] =
                   [@ EXCEPT !.pc = "strip",
                             !.seen = heap[proc[p].tree].tag]]
    /\ UNCHANGED <<v, doc, last, trace, heap>>

\* _remove_root_tag_prefix(v); return
Strip(p) ==
    LET t == proc[p].tree
        r == RemoveRootTagPrefix(heap[t])
    IN  /\ proc[p].pc = "strip"
        /\ heap' = [heap EXCEPT ![t] = r.tree]
        /\ proc' = [proc EXCEPT ![p] = IdleProc]
        /\ UNCHANGED <<v, doc, last, trace>>

NextConc ==
    \/ \E p \in Procs, op \in {"dumps", "valid_as_v2_0"}, t \in TreeIds :
          Begin(p, op, t)
    \/ \E p \in Procs : Standardise(p)
    \/ \E p \in Procs : Work(p)
    \/ \E p \in Procs : Strip(p)

SpecConc == InitConc /\ [][NextConc]_vars

\* C7: a thread whose call had its tree to itself serialises or validates
\* with the root tag {ns}VOEvent; two threads on the same tree can
\* interleave so that one serialises or validates the stripped root tag
\* (C7_Witness is such a state).
C7_OwnTreeSeesPrefixed ==
    \A p \in Procs :
        (proc[p].pc = "strip" /\ ~proc[p].shared)
            => proc[p].seen = PrefixedTag(VOE_NS, "VOEvent")

C7_Witness ==
    \E p \in Procs, q \in Procs :
        /\ p # q
        /\ proc[p].pc = "strip" /\ proc[p].shared
        /\ proc[p].seen = StrippedTag("VOEvent")
        /\ proc[q].pc = "idle"

====
